---------------------------- MODULE Spec2Model ----------------------------
(***************************************************************************)
(* A model of api/py/ai/chronon/repo/run.py: the layered resolution of the *)
(* runtime environment (set_runtime_env), the retried jar download         *)
(* (retry_decorator, download_jar, download_only_once), the Runner         *)
(* (construction and run) and the launcher's main sequence.                *)
(*                                                                         *)
(* Representation.  A Python str is a tuple of atoms (its pieces): a       *)
(* literal "4" is <<"4">>, a formatted string is the tuple of the pieces   *)
(* the format joins, a path is the tuple of its '/'-separated segments.    *)
(* None is the tuple None below.  A dict is a function on its keys.        *)
(* Values that the code only uses as dictionary keys or compares with      *)
(* literals (mode, conf_type, spark_version) are atoms, NoneAtom when None.*)
(***************************************************************************)
EXTENDS Naturals, Integers, Sequences, FiniteSets, TLC

VARIABLES
    pc,           \* position of the process in the launcher (or in the call)
    caller,       \* "__main__" for a launcher run, "test" for a direct call
    cli,          \* the command line: the flags given (None when not given)
    parser,       \* the defaults the argument parser captured when it was built
    args,         \* the argparse namespace handed to set_runtime_env
    fs,           \* the files the call reads: teams.json and the conf document
    shell_env,    \* os.environ as the invoking shell left it
    os_environ,   \* os.environ
    environment,  \* the local dict `environment` of set_runtime_env at its end
    final_args,   \* the namespace of the final parse (args of __main__)
    jar,          \* the call of download_jar: its arguments, the wrapper's
                  \* attempt counter, the calls made, the sleeps, the jar path
    runner,       \* the fields of the Runner instance, EmptyDict before it exists
    running_apps, \* the lines the list-apps command printed
    launched,     \* the external commands run so far
    submitted,    \* how many driver commands were started
    error         \* <<exception, function>> that ended the run, <<>> when none

vars == <<pc, caller, cli, parser, args, fs, shell_env, os_environ, environment,
          final_args, jar, runner, running_apps, launched, submitted,
          error>>

None == <<"None">>
NoneAtom == "None"
EmptyDict == <<>>

\* d.get(k, dflt)
Get(d, k, dflt) == IF k \in DOMAIN d THEN d[k] ELSE dflt

\* truth value of a str-or-None: None and '' are false
Truthy(v) == v # None /\ v # <<>> /\ v # <<"">>

\* truth value of a str-or-None held as an atom (args.mode)
TruthyAtom(m) == m # NoneAtom /\ m # ""

-----------------------------------------------------------------------------
(* Program constants *)

ONLINE_MODES == {"streaming", "metadata-upload", "fetch", "local-streaming"}

SPARK_MODES == {"backfill", "upload", "streaming", "consistency-metrics-compute",
                "analyze", "stats-summary", "log-flattener", "metadata-export",
                "label-join"}

SUPPORTED_SPARK == {"2.4.0", "3.1.1", "3.2.1"}

SCALA_VERSION_FOR_SPARK ==
    [v \in SUPPORTED_SPARK |->
        CASE v = "2.4.0" -> "2.11" [] v = "3.1.1" -> "2.12" [] v = "3.2.1" -> "2.13"]

\* the keys of MODE_ARGS: the choices of --mode
MODE_ARGS_KEYS == {"backfill", "upload", "stats-summary", "analyze", "streaming",
                   "metadata-upload", "fetch", "consistency-metrics-compute",
                   "local-streaming", "log-flattener", "metadata-export",
                   "label-join"}

ROUTES ==
    [group_bys |->
        [m \in {"upload", "backfill", "streaming", "local-streaming", "fetch",
                "analyze", "metadata-export"} |->
            CASE m = "upload" -> "group-by-upload"
              [] m = "backfill" -> "group-by-backfill"
              [] m = "streaming" -> "group-by-streaming"
              [] m = "local-streaming" -> "group-by-streaming"
              [] m = "fetch" -> "fetch"
              [] m = "analyze" -> "analyze"
              [] m = "metadata-export" -> "metadata-export"],
     joins |->
        [m \in {"backfill", "metadata-upload", "fetch", "consistency-metrics-compute",
                "stats-summary", "analyze", "log-flattener", "metadata-export",
                "label-join"} |->
            CASE m = "backfill" -> "join"
              [] OTHER -> m],
     staging_queries |->
        [m \in {"backfill", "metadata-export"} |->
            CASE m = "backfill" -> "staging-query-backfill"
              [] m = "metadata-export" -> "metadata-export"]]

\* APP_NAME_TEMPLATE.format(conf_type=, mode=, context=, name=): the pieces joined by '_'
APP_NAME_TEMPLATE(conf_type, mode, context, name) ==
    <<"chronon", conf_type, mode, context>> \o name

-----------------------------------------------------------------------------
(* set_runtime_env *)

\* args.conf.split('/')[-4:]
Last4(segs) == IF Len(segs) <= 4 THEN segs ELSE SubSeq(segs, Len(segs) - 3, Len(segs))

\* context, conf_type, team, _ = ...: unpacking needs exactly four values
UnpackFails(segs) == Len(Last4(segs)) # 4

\* the layers applied in the reverse order
order_reversed == <<"cli_args", "common_env", "default_env", "team_env", "conf_env">>

\* the layers applied with team_env before conf_env
order_team_first == <<"team_env", "conf_env", "default_env", "common_env", "cli_args">>

\* the order the layers are applied in
order == <<"conf_env", "team_env", "default_env", "common_env", "cli_args">>

\* the dict `environment` as first assigned
EmptyEnvironment ==
    [common_env |-> EmptyDict, conf_env |-> EmptyDict, default_env |-> EmptyDict,
     team_env |-> EmptyDict, cli_args |-> EmptyDict]

\* os.path.join(a, b) on paths held as their '/'-separated segments: an
\* absolute b (first segment '') replaces a; a '/' that ends a is not doubled
PathJoin(a, b) ==
    IF b # <<>> /\ b[1] = "" THEN b
    ELSE IF a = <<>> THEN b
    ELSE IF a[Len(a)] = "" THEN SubSeq(a, 1, Len(a) - 1) \o b
    ELSE a \o b

\* The part of set_runtime_env that reads teams.json and the conf document:
\* [error, environment], error "" when no exception is raised.  On an
\* exception `environment` holds the layers assigned before the raising line.
FileLayers(a, f) ==
    IF ~(Truthy(a.repo) /\ f.teams_exists)
    THEN [error |-> "", environment |-> EmptyEnvironment]
    ELSE
      LET teams_json == f.teams_json
          common == Get(Get(teams_json, "default", EmptyDict), "common_env", EmptyDict)
          e1 == [EmptyEnvironment EXCEPT !.common_env = common]
      IN IF ~(Truthy(a.conf) /\ TruthyAtom(a.mode))  \* if args.conf and args.mode
         THEN [error |-> "", environment |-> e1]
         ELSE IF UnpackFails(a.conf)
         THEN [error |-> "ValueError", environment |-> e1]
         ELSE
           LET l4 == Last4(a.conf)
               context == l4[1]
               conf_type == l4[2]
               team == l4[3]
               conf_path == PathJoin(a.repo, a.conf)
           IN IF ~f.conf_exists
              THEN [error |-> "FileNotFoundError", environment |-> e1]
              ELSE
                LET conf_json == f.conf_json
                IN IF "metaData" \notin DOMAIN conf_json
                   THEN [error |-> "AttributeError", environment |-> e1]
                   ELSE
                     LET e2 == [e1 EXCEPT !.conf_env =        \* line 206
                                  Get(Get(conf_json["metaData"], "modeToEnvMap", EmptyDict),
                                      a.mode, EmptyDict)]
                     IN IF team \notin DOMAIN teams_json      \* line 207
                        THEN [error |-> "KeyError", environment |-> e2]
                        ELSE
                          LET e3 == [e2 EXCEPT
                                       !.team_env =
                                          Get(Get(teams_json[team], context, EmptyDict),
                                              a.mode, EmptyDict),
                                       !.default_env =        \* line 208
                                          Get(Get(Get(teams_json, "default", EmptyDict),
                                                  context, EmptyDict), a.mode, EmptyDict)]
                          IN IF "name" \notin DOMAIN conf_json["metaData"]  \* line 213
                             THEN [error |-> "KeyError", environment |-> e3]
                             ELSE
                               [error |-> "",
                                environment |->
                                  [e3 EXCEPT !.cli_args =
                                     ("APP_NAME" :>
                                        APP_NAME_TEMPLATE(conf_type, a.mode, context,
                                                          conf_json["metaData"]["name"]))
                                     @@ ("CHRONON_CONF_PATH" :> conf_path)]]

\* lines 215-223: the entries of cli_args that come from the arguments
CliArgs(a, cli_args) ==
    LET withName ==
          IF Truthy(a.app_name) THEN ("APP_NAME" :> a.app_name) @@ cli_args
          ELSE IF a.mode = "metadata-export"
               THEN ("APP_NAME" :> <<"chronon_metadata_export">>) @@ cli_args
               ELSE cli_args
    IN ("CHRONON_DRIVER_JAR" :> a.chronon_jar)
       @@ ("CHRONON_ONLINE_JAR" :> a.online_jar)
       @@ ("CHRONON_ONLINE_CLASS" :> a.online_class)
       @@ withName

\* the loop body without its test `key not in os.environ`
ApplyLayer_overwrite(environ, layer) ==
    LET set == {k \in DOMAIN layer : layer[k] # None}
    IN [k \in DOMAIN environ \cup set |-> IF k \in set THEN layer[k] ELSE environ[k]]

\* for key, value in environment[set_key].items():
\*     if key not in os.environ and value is not None: os.environ[key] = value
ApplyLayer(environ, layer) ==
    LET added == {k \in DOMAIN layer : k \notin DOMAIN environ /\ layer[k] # None}
    IN [k \in DOMAIN environ \cup added |->
           IF k \in DOMAIN environ THEN environ[k] ELSE layer[k]]

\* for set_key in order: ...
RECURSIVE ApplyOrder(_, _, _)
ApplyOrder(environ, env, ord) ==
    IF ord = <<>> THEN environ
    ELSE ApplyOrder(ApplyLayer(environ, env[Head(ord)]), env, Tail(ord))

\* set_runtime_env(args): [error, environment, environ]
SetRuntimeEnvResult(a, f, environ) ==
    LET fl == FileLayers(a, f)
    IN IF fl.error # ""
       THEN [error |-> <<fl.error, "set_runtime_env">>, environment |-> fl.environment, environ |-> environ]
       ELSE LET env == [fl.environment EXCEPT !.cli_args = CliArgs(a, @)]
            IN [error |-> <<>>, environment |-> env,
                environ |-> ApplyOrder(environ, env, order)]

-----------------------------------------------------------------------------
(* Inputs of set_runtime_env *)

\* the longest conf path drawn, in segments
MaxSegs == 5

ConfName == <<"sample_team.sample_join.v1">>

\* a conf path of n segments: the last n of <dir>/.../production/joins/sample_team/<file>
RECURSIVE ConfPath(_)
ConfPath(n) ==
    IF n = 1 THEN <<"sample_join.v1">>
    ELSE IF n = 2 THEN <<"sample_team">> \o ConfPath(1)
    ELSE IF n = 3 THEN <<"joins">> \o ConfPath(2)
    ELSE IF n = 4 THEN <<"production">> \o ConfPath(3)
    ELSE <<"zipline">> \o ConfPath(n - 1)

\* the flat env mappings a document may hold under one (context, mode)
EnvMaps(v) == {EmptyDict, "X" :> <<v>>, "X" :> None, "APP_NAME" :> <<v>>}

\* {context -> {mode -> map}} with `level` of the levels context, mode present
ContextDict(level, m) ==
    IF level = 0 THEN EmptyDict
    ELSE IF level = 1 THEN "production" :> EmptyDict
    ELSE "production" :> ("backfill" :> m)

\* teams.json: the team entry is absent (tl = 0) or has tl - 1 levels below it;
\* the default entry is absent (dl = 0) or has common_env (when hasCommon) and
\* dl - 1 levels below it
TeamsJson(tl, tm, dl, dm, hasCommon, cm) ==
    (IF tl = 0 THEN EmptyDict ELSE "sample_team" :> ContextDict(tl - 1, tm))
    @@
    (IF dl = 0 THEN EmptyDict
     ELSE "default" :> ((IF hasCommon THEN "common_env" :> cm ELSE EmptyDict)
                        @@ ContextDict(dl - 1, dm)))

\* the conf document: no metaData (cl = 0), metaData without name (cl = 1),
\* metaData with name (cl = 2), and modeToEnvMap (cl = 3), and the mode in it (cl = 4)
ConfJson(cl, m) ==
    IF cl = 0 THEN EmptyDict
    ELSE IF cl = 1 THEN "metaData" :> EmptyDict
    ELSE IF cl = 2 THEN "metaData" :> ("name" :> ConfName)
    ELSE IF cl = 3 THEN "metaData" :> (("name" :> ConfName) @@ ("modeToEnvMap" :> EmptyDict))
    ELSE "metaData" :> (("name" :> ConfName) @@ ("modeToEnvMap" :> ("backfill" :> m)))

MapsAt(level, top, v) == IF level = top THEN EnvMaps(v) ELSE {EmptyDict}

NoFiles ==
    [teams_exists |-> FALSE, teams_json |-> EmptyDict,
     conf_exists |-> FALSE, conf_json |-> EmptyDict]

ShellEnvs ==
    {EmptyDict, "X" :> <<"from_shell">>, "APP_NAME" :> <<"from_shell">>,
     ("X" :> <<"from_shell">>) @@ ("APP_NAME" :> <<"from_shell">>)}

\* an absolute conf path: /production/joins/sample_team/<file>
AbsoluteConf == <<"">> \o ConfPath(4)

\* the conf arguments drawn: none, the relative paths of 1 .. MaxSegs segments,
\* the absolute path
ConfArgs == {None, AbsoluteConf} \cup {ConfPath(n) : n \in 1 .. MaxSegs}

InitEnv ==
    /\ pc = "set_runtime_env"
    /\ \E repo \in {"none", "bare", "teams"},
          conf \in ConfArgs,
          mode \in {NoneAtom, "", "backfill", "metadata-export"},
          app \in {None, <<"cli_name">>} :
         /\ args = [repo |-> IF repo = "none" THEN None ELSE <<"repo">>,
                    conf |-> conf,
                    mode |-> mode, app_name |-> app,
                    chronon_jar |-> None, online_jar |-> None, online_class |-> None]
         /\ IF repo # "teams"
            THEN fs = NoFiles
            ELSE \E tl \in 0 .. 3, dl \in 0 .. 3, hc \in BOOLEAN,
                    cl \in 0 .. 4, ce \in BOOLEAN :
                 \E tm \in MapsAt(tl, 3, "from_team"),
                    dm \in MapsAt(dl, 3, "from_default"),
                    cm \in IF hc /\ dl > 0 THEN EnvMaps("from_common") ELSE {EmptyDict},
                    km \in MapsAt(cl, 4, "from_conf") :
                   /\ (dl = 0 => ~hc)
                   /\ (conf = None => ~ce)
                   /\ (~ce => cl = 0)
                   /\ fs = [teams_exists |-> TRUE,
                            teams_json |-> TeamsJson(tl, tm, dl, dm, hc, cm),
                            conf_exists |-> ce,
                            conf_json |-> ConfJson(cl, km)]
    /\ shell_env \in ShellEnvs
    /\ os_environ = shell_env
    /\ environment = EmptyEnvironment
    /\ caller = "test"
    /\ cli = EmptyDict
    /\ parser = EmptyDict
    /\ final_args = EmptyDict
    /\ jar = EmptyDict
    /\ runner = EmptyDict
    /\ running_apps = <<>>
    /\ launched = {}
    /\ submitted = 0
    /\ error = <<>>

\* set_runtime_env(args): called by the tests, and by __main__ after the pre-parse
SetRuntimeEnv ==
    /\ pc = "set_runtime_env"
    /\ LET r == SetRuntimeEnvResult(args, fs, os_environ)
       IN /\ os_environ' = r.environ
          /\ environment' = r.environment
          /\ error' = r.error
          /\ pc' = IF r.error # <<>> THEN "raised"
                   ELSE IF caller = "test" THEN "returned" ELSE "final_parse"
    /\ UNCHANGED <<caller, cli, parser, args, fs, shell_env, final_args, jar, runner,
                   running_apps, launched, submitted>>

NextEnv == SetRuntimeEnv

SpecEnv == InitEnv /\ [][NextEnv]_vars


-----------------------------------------------------------------------------
(* External commands, named by their command templates *)

CurlHead == <<"curl", "-sI">>
WcSize == <<"wc", "-c">>
CurlGet == <<"curl", "-o">>
CurlMetadata == <<"curl", "-s", "maven-metadata.xml">>
OnlineJarFetch == <<"online_jar_fetch">>
ListApps == <<"list_apps">>

-----------------------------------------------------------------------------
(* download_only_once, download_jar and the retry wrapper *)

\* what the outside world answers during one call of download_jar: what the
\* metadata request gives, and how far download_only_once gets
Worlds ==
    [metadata : {"curl_fails", "malformed", "no_version", "found"},
     download : {"no_file_get_ok",     \* no file at path; curl -o succeeds
                 "no_file_get_fails",  \* no file at path; curl -o fails
                 "head_fails",         \* a file at path; curl -sI fails
                 "no_content_length",  \* its output holds no content-length
                 "wc_fails",           \* wc -c fails
                 "same_size",          \* local_size == remote_size
                 "differs_get_ok",     \* sizes differ; curl -o succeeds
                 "differs_get_fails"}] \* sizes differ; curl -o fails

\* download_only_once(url, path): [error, cmds]
DownloadOnlyOnce(w) ==
    CASE w.download = "no_file_get_ok" -> [error |-> "", cmds |-> {CurlGet}]
      [] w.download = "no_file_get_fails" ->
            [error |-> "CalledProcessError", cmds |-> {CurlGet}]
      [] w.download = "head_fails" ->
            [error |-> "CalledProcessError", cmds |-> {CurlHead}]
      [] w.download = "no_content_length" ->
            [error |-> "AttributeError", cmds |-> {CurlHead}]
      [] w.download = "wc_fails" ->
            [error |-> "CalledProcessError", cmds |-> {CurlHead, WcSize}]
      [] w.download = "same_size" -> [error |-> "", cmds |-> {CurlHead, WcSize}]
      [] w.download = "differs_get_ok" ->
            [error |-> "", cmds |-> {CurlHead, WcSize, CurlGet}]
      [] w.download = "differs_get_fails" ->
            [error |-> "CalledProcessError", cmds |-> {CurlHead, WcSize, CurlGet}]

\* spark_version in SUPPORTED_SPARK
SupportedSpark(sv) == Len(sv) = 1 /\ sv[1] \in SUPPORTED_SPARK

\* os.path.join('/tmp', jar_url.split('/')[-1]) of
\* {base_url}/{version}/spark_{jar_type}_{scala_version}-{version}-assembly.jar
JarPath(jar_type, scala_version, version) ==
    <<"/tmp", "spark", jar_type, scala_version>> \o version \o <<"assembly.jar">>

\* the version the metadata listing ends with
ListedVersion == <<"0.0.9">>

\* download_jar without its assertion: an unknown spark version gets scala 2.11
DownloadJar_unchecked(a, environ, w) ==
    LET scala_version ==
          IF SupportedSpark(a.spark_version)
          THEN SCALA_VERSION_FOR_SPARK[a.spark_version[1]] ELSE "2.11"
        dl == DownloadOnlyOnce(w)
    IN [error |-> dl.error, cmds |-> dl.cmds, downloaded |-> TRUE,
        jar_path |-> JarPath(a.jar_type, scala_version, a.version)]

\* one call of the undecorated download_jar:
\* [error, cmds, downloaded (download_only_once was called), jar_path]
DownloadJar(a, environ, w) ==
    IF ~SupportedSpark(a.spark_version)
    THEN [error |-> "AssertionError", cmds |-> {}, downloaded |-> FALSE, jar_path |-> None]
    ELSE
      LET scala_version == SCALA_VERSION_FOR_SPARK[a.spark_version[1]]
          env_jar == Get(environ, "CHRONON_DRIVER_JAR", None)
          version0 == IF a.version = <<"latest">> THEN None ELSE a.version
          lookup == version0 = None
          version == IF lookup THEN ListedVersion ELSE version0
          dl == DownloadOnlyOnce(w)
      IN IF env_jar # None
         THEN [error |-> "", cmds |-> {}, downloaded |-> FALSE, jar_path |-> env_jar]
         ELSE IF lookup /\ w.metadata = "curl_fails"
         THEN [error |-> "CalledProcessError", cmds |-> {CurlMetadata},
               downloaded |-> FALSE, jar_path |-> None]
         ELSE IF lookup /\ w.metadata = "malformed"
         THEN [error |-> "ParseError", cmds |-> {CurlMetadata},
               downloaded |-> FALSE, jar_path |-> None]
         ELSE IF lookup /\ w.metadata = "no_version"
         THEN [error |-> "IndexError", cmds |-> {CurlMetadata},
               downloaded |-> FALSE, jar_path |-> None]
         ELSE [error |-> dl.error,
               cmds |-> dl.cmds \cup (IF lookup THEN {CurlMetadata} ELSE {}),
               downloaded |-> TRUE,
               jar_path |-> IF dl.error = "" THEN JarPath(a.jar_type, scala_version, version)
                            ELSE None]

\* @retry_decorator(retries=3, backoff=50)
Retries == 3
Backoff == 50

\* the state of a call of the decorated download_jar as it is entered
JarCall(a) ==
    [call |-> a, attempt |-> 0, calls |-> 0, downloaded |-> FALSE, sleeps |-> <<>>,
     jar_path |-> None]

\* where the process goes when download_jar returns
AfterDownloadJar == IF caller = "test" THEN "returned" ELSE "Runner.__init__"

\* one pass of the wrapper's loop: the call, and on an exception the handler
DownloadJarAttempt ==
    /\ pc = "download_jar"
    /\ jar.attempt <= Retries
    /\ \E r \in {DownloadJar(jar.call, os_environ, w) : w \in Worlds} :
            /\ launched' = launched \cup r.cmds
            /\ IF r.error = ""
               THEN /\ jar' = [jar EXCEPT !.calls = @ + 1,
                                          !.downloaded = @ \/ r.downloaded,
                                          !.jar_path = r.jar_path]
                    /\ pc' = AfterDownloadJar
               ELSE /\ jar' = [jar EXCEPT !.calls = @ + 1,
                                          !.downloaded = @ \/ r.downloaded,
                                          !.attempt = @ + 1,
                                          !.sleeps = Append(@, (jar.attempt + 1) * Backoff)]
                    /\ pc' = pc
    /\ UNCHANGED <<caller, cli, parser, args, fs, shell_env, os_environ, environment,
                   final_args, runner, running_apps, submitted, error>>

\* the call after the loop: its result or its exception is the wrapper's
DownloadJarLastCall ==
    /\ pc = "download_jar"
    /\ jar.attempt > Retries
    /\ \E r \in {DownloadJar(jar.call, os_environ, w) : w \in Worlds} :
            /\ launched' = launched \cup r.cmds
            /\ jar' = [jar EXCEPT !.calls = @ + 1,
                                  !.downloaded = @ \/ r.downloaded,
                                  !.jar_path = r.jar_path]
            /\ IF r.error = ""
               THEN pc' = AfterDownloadJar /\ error' = error
               ELSE pc' = "raised" /\ error' = <<r.error, "download_jar">>
    /\ UNCHANGED <<caller, cli, parser, args, fs, shell_env, os_environ, environment,
                   final_args, runner, running_apps, submitted>>

-----------------------------------------------------------------------------
(* download_jar called directly, as test_download_jar calls it *)

\* the versions asked for: none, 'latest', and MaxVersions explicit ones
MaxVersions == 1

JarVersions == {None, <<"latest">>} \cup {<<"version", n>> : n \in 1 .. MaxVersions}

SparkVersions == {<<v>> : v \in SUPPORTED_SPARK \cup {"2.1.0", "3.3.0"}}

InitJar ==
    /\ pc = "download_jar"
    /\ caller = "test"
    /\ \E version \in JarVersions, jar_type \in {"uber", "embedded"},
          spark_version \in SparkVersions :
         jar = JarCall([version |-> version, jar_type |-> jar_type,
                        release_tag |-> None, spark_version |-> spark_version])
    /\ shell_env \in {EmptyDict, "CHRONON_DRIVER_JAR" :> <<"/jars/chronon.jar">>}
    /\ os_environ = shell_env
    /\ environment = EmptyEnvironment
    /\ cli = EmptyDict
    /\ parser = EmptyDict
    /\ args = EmptyDict
    /\ fs = NoFiles
    /\ final_args = EmptyDict
    /\ runner = EmptyDict
    /\ running_apps = <<>>
    /\ launched = {}
    /\ submitted = 0
    /\ error = <<>>

NextJar == DownloadJarAttempt \/ DownloadJarLastCall

SpecJar == InitJar /\ [][NextJar]_vars

\* a call that is entered runs on: the wrapper's loop, its sleeps and the
\* commands of download_jar all return or raise
SpecJarFair == SpecJar /\ WF_vars(NextJar)

-----------------------------------------------------------------------------
(* The argument parser of __main__ *)

\* os.path.join(chronon_repo_path, 'scripts/<file>')
ScriptPath(repo_path, file) == PathJoin(repo_path, <<"scripts", file>>)

\* The defaults given to add_argument: each os.environ.get is evaluated when
\* the parser is built, before any parse and before set_runtime_env.
ParserDefaults(environ) ==
    LET chronon_repo_path == Get(environ, "CHRONON_REPO_PATH", <<".">>)
    IN [conf |-> None,
        mode |-> "backfill",
        ds |-> <<"today">>,
        app_name |-> Get(environ, "APP_NAME", None),
        repo |-> chronon_repo_path,
        online_jar |-> Get(environ, "CHRONON_ONLINE_JAR", None),
        online_class |-> Get(environ, "CHRONON_ONLINE_CLASS", None),
        version |-> Get(environ, "VERSION", None),
        spark_version |-> Get(environ, "SPARK_VERSION", <<"2.4.0">>),
        spark_submit_path |-> ScriptPath(chronon_repo_path, "spark_submit.sh"),
        spark_streaming_submit_path |-> ScriptPath(chronon_repo_path, "spark_streaming.sh"),
        online_jar_fetch |-> ScriptPath(chronon_repo_path, "fetch_online_jar.py"),
        sub_help |-> FALSE,
        conf_type |-> "group_bys",
        online_args |-> Get(environ, "CHRONON_ONLINE_ARGS", <<"">>),
        chronon_jar |-> Get(environ, "CHRONON_DRIVER_JAR", None),
        release_tag |-> None,
        list_apps |-> <<"python3">> \o ScriptPath(chronon_repo_path, "yarn_list.py")]

\* the arguments whose default is computed from os.environ when the parser
\* is built: argument -> the variable read, by os.environ.get in add_argument
\* or through chronon_repo_path
EnvDefaults ==
    [app_name |-> "APP_NAME", version |-> "VERSION",
     online_jar |-> "CHRONON_ONLINE_JAR", online_class |-> "CHRONON_ONLINE_CLASS",
     chronon_jar |-> "CHRONON_DRIVER_JAR",
     spark_version |-> "SPARK_VERSION", online_args |-> "CHRONON_ONLINE_ARGS",
     repo |-> "CHRONON_REPO_PATH", spark_submit_path |-> "CHRONON_REPO_PATH",
     spark_streaming_submit_path |-> "CHRONON_REPO_PATH",
     online_jar_fetch |-> "CHRONON_REPO_PATH", list_apps |-> "CHRONON_REPO_PATH"]

\* parser.parse_known_args(): a flag given on the command line, else its default
ParseKnownArgs(p, c) == [k \in DOMAIN p |-> IF k \in DOMAIN c THEN c[k] ELSE p[k]]

-----------------------------------------------------------------------------
(* Runner *)

\* str.strip(): the string without its leading and trailing whitespace.
\* The characters str.isspace() holds of; one that has no escape in a TLA+
\* string is the atom spelled as its Python escape.
Whitespace ==
    {" ", "\t", "\n", "\r", "\f", "\\x0b", "\\x0c", "\\x1c", "\\x1d", "\\x1e", "\\x1f",
     "\\x85", "\\xa0", "\\u1680", "\\u2000", "\\u2001", "\\u2002", "\\u2003",
     "\\u2004", "\\u2005", "\\u2006", "\\u2007", "\\u2008", "\\u2009", "\\u200a",
     "\\u2028", "\\u2029", "\\u202f", "\\u205f", "\\u3000"}

RECURSIVE LStrip(_)
LStrip(str) ==
    IF str # <<>> /\ Head(str) \in Whitespace THEN LStrip(Tail(str)) ELSE str

RECURSIVE RStrip(_)
RStrip(str) ==
    IF str # <<>> /\ str[Len(str)] \in Whitespace
    THEN RStrip(SubSeq(str, 1, Len(str) - 1)) ELSE str

Strip(str) == RStrip(LStrip(str))

FetchedOnlineJar == <<"/tmp", "online.jar">>

\* Runner.__init__(args, jar_path): [error, cmds, fetched, online_jar, runner];
\* fetched: os.environ['CHRONON_ONLINE_JAR'] was set to the fetched jar
\* w: whether args.online_jar exists as a file, whether the fetch script succeeds
RunnerInit(a, jar_path, w) ==
    LET valid_jar == Truthy(a.online_jar) /\ w.online_jar_exists
        fetching == a.mode \in ONLINE_MODES /\ ~a.sub_help /\ ~valid_jar
        fetched == fetching /\ w.fetch_ok
        online_jar == IF fetched THEN FetchedOnlineJar ELSE a.online_jar
        l4 == Last4(a.conf)
        fields(context, conf_type, team) ==
            [repo |-> a.repo, conf |-> a.conf, sub_help |-> a.sub_help, mode |-> a.mode,
             online_jar |-> online_jar, context |-> context, conf_type |-> conf_type,
             team |-> team, ds |-> a.ds, jar_path |-> jar_path, online_class |-> a.online_class,
             app_name |-> a.app_name,
             spark_submit |-> IF a.mode = "streaming" THEN a.spark_streaming_submit_path
                              ELSE a.spark_submit_path,
             list_apps_cmd |-> a.list_apps]
        cmds == IF fetching THEN {OnlineJarFetch} ELSE {}
        failed(e, f) == [error |-> e, cmds |-> cmds, fetched |-> f,
                         online_jar |-> online_jar, runner |-> EmptyDict]
    IN IF fetching /\ ~w.fetch_ok THEN failed("CalledProcessError", FALSE)
       ELSE IF Truthy(a.conf)
       THEN IF UnpackFails(a.conf) THEN failed("ValueError", fetched)
            ELSE IF l4[2] \notin DOMAIN ROUTES THEN failed("KeyError", fetched)
            ELSE IF a.mode \notin DOMAIN ROUTES[l4[2]] THEN failed("AssertionError", fetched)
            ELSE [error |-> "", cmds |-> cmds, fetched |-> fetched,
                  online_jar |-> online_jar, runner |-> fields(l4[1], l4[2], l4[3])]
       ELSE [error |-> "", cmds |-> cmds, fetched |-> fetched, online_jar |-> online_jar,
             runner |-> fields(NoneAtom, a.conf_type, NoneAtom)]

\* the subcommand without the route table: the mode itself
Subcommand_mode(conf_type, mode) == mode

\* subcommand = ROUTES[self.conf_type][self.mode], for a pair the table holds
Subcommand(conf_type, mode) == ROUTES[conf_type][mode]

\* the lookup raises KeyError for a pair the table does not hold
Routed(conf_type, mode) == conf_type \in DOMAIN ROUTES /\ mode \in DOMAIN ROUTES[conf_type]

\* the substrings of 'streaming', the empty one included
StreamingSubstrings ==
    {"", "a", "e", "g", "i", "m", "n", "r", "s", "t", "am", "ea", "in", "mi",
     "ng", "re", "st", "tr", "ami", "eam", "ing", "min", "rea", "str", "tre",
     "amin", "eami", "ming", "ream", "stre", "trea", "aming", "eamin",
     "reami", "strea", "tream", "eaming", "reamin", "stream", "treami",
     "reaming", "streami", "treamin", "streamin", "treaming", "streaming"}

\* self.mode in ('streaming'): ('streaming') is the str, so this is a substring
\* test; 'streaming' is the only choice of --mode that passes it
InStreaming(mode) == mode \in StreamingSubstrings

\* a line of the list-apps output: not JSON, a JSON record without a (string)
\* app_name, or a JSON record with one
Garbage == [kind |-> "garbage", app_name |-> <<>>]
NoAppName == [kind |-> "no_app_name", app_name |-> <<>>]
App(name) == [kind |-> "app", app_name |-> name]

\* running_app_map.get(self.app_name, []): the records whose stripped app_name is
\* the key; the keys are str, so None finds nothing
FilteredApps(lines, app_name) ==
    SelectSeq(lines, LAMBDA l : /\ l.kind = "app"
                                /\ app_name # None
                                /\ Strip(l.app_name) = app_name)

\* the check without its assertion: any running app means no new one
DedupVerdict_any(n) == IF n > 0 THEN "return" ELSE "submit"

\* if len(filtered_apps) > 0: assert len(filtered_apps) == 1; return
DedupVerdict(n) == IF n > 0 THEN (IF n = 1 THEN "return" ELSE "assert") ELSE "submit"

\* the driver commands, as <<launcher, subcommand, arguments>>
JavaCommand(subcommand, sub_help) ==
    <<"java", subcommand, IF sub_help THEN "--help" ELSE "final_args">>
SubmitCommand(script, subcommand) == <<script[Len(script)], subcommand, "final_args">>

\* Runner.run(): [error, cmds, submitted, listed]
\* w: whether the list-apps command succeeds, its lines, whether the driver
\* command succeeds
RunnerRun(r, w) ==
    IF ~Routed(r.conf_type, r.mode)
    THEN [error |-> <<"KeyError", "Runner.run">>, cmds |-> {}, submitted |-> 0,
          listed |-> <<>>]
    ELSE
      LET subcommand == Subcommand(r.conf_type, r.mode)
          java == r.sub_help \/ r.mode \notin SPARK_MODES
          dedup == ~java /\ InStreaming(r.mode)
          verdict == IF dedup /\ w.list_ok
                     THEN DedupVerdict(Len(FilteredApps(w.lines, r.app_name)))
                     ELSE "submit"
          command == IF java THEN JavaCommand(subcommand, r.sub_help)
                     ELSE SubmitCommand(r.spark_submit, subcommand)
          listing == IF dedup THEN {ListApps} ELSE {}
      IN IF dedup /\ ~w.list_ok
         THEN [error |-> <<"CalledProcessError", "check_output(list_apps)">>,
               cmds |-> listing, submitted |-> 0, listed |-> <<>>]
         ELSE IF verdict = "assert"
         THEN [error |-> <<"AssertionError", "Runner.run">>, cmds |-> listing,
               submitted |-> 0, listed |-> w.lines]
         ELSE IF verdict = "return"
         THEN [error |-> <<>>, cmds |-> listing, submitted |-> 0, listed |-> w.lines]
         ELSE [error |-> IF w.driver_ok THEN <<>>
                         ELSE <<"CalledProcessError", "check_call(command)">>,
               cmds |-> listing \cup {command}, submitted |-> 1,
               listed |-> IF dedup THEN w.lines ELSE <<>>]

-----------------------------------------------------------------------------
(* The launcher: __main__ *)

\* the longest list-apps output drawn, in lines
MaxApps == 2

\* the app names listed: the run's, the run's between whitespace, another
ListedNames == {<<"cli_name">>, <<"\r", "cli_name", " ">>, <<"other_app">>}

Lines == {Garbage, NoAppName} \cup {App(n) : n \in ListedNames}

\* str.split('\n') gives one line at least
Listings == UNION {[1 .. n -> Lines] : n \in 1 .. MaxApps}

\* the conf paths given to the launcher: one per conf type, known or not, and
\* one of three segments
LaunchConfTypes == {"group_bys", "joins", "staging_queries", "models"}
LaunchConf(conf_type) == <<"production", conf_type, "sample_team", "sample_join.v1">>
ShortConf == <<"joins", "sample_team", "sample_join.v1">>
OnlineJoinConf == <<"production", "joins", "sample_team", "sample_online_join.v1">>

\* the conf document at a path of the tests' repository: sample_online_join.v1
\* has its own name and no modeToEnvMap, sample_join.v1 sets EXECUTOR_MEMORY
\* for backfill
SampleConfJson(conf) ==
    IF conf[Len(conf)] = "sample_online_join.v1"
    THEN "metaData" :> ("name" :> <<"sample_team.sample_online_join.v1">>)
    ELSE ConfJson(4, "EXECUTOR_MEMORY" :> <<"9G">>)

\* the repository of the tests as a call with --conf conf reads it: teams.json
\* and the conf document at that path
SampleFiles(teams_exists, conf) ==
    [teams_exists |-> teams_exists,
     teams_json |-> TeamsJson(3, "EXECUTOR_CORES" :> <<"4">>,
                              3, "DRIVER_MEMORY" :> <<"15G">>,
                              TRUE, "VERSION" :> <<"latest">>),
     conf_exists |-> TRUE,
     conf_json |-> SampleConfJson(conf)]

\* a flag of the command line: absent, or given with a value
Flag(name, given, value) == IF given THEN name :> value ELSE EmptyDict

Init ==
    /\ pc = "pre_parse"
    /\ caller = "__main__"
    /\ \E conf \in {None, ShortConf, OnlineJoinConf}
                      \cup {LaunchConf(t) : t \in LaunchConfTypes},
          conf_type \in {NoneAtom} \cup LaunchConfTypes,  \* read only without --conf
          mode \in MODE_ARGS_KEYS,
          sub_help \in BOOLEAN,
          app_name \in {None, <<"cli_name">>},
          chronon_jar \in {None, <<"/jars/chronon.jar">>},
          spark_version \in {None, <<"2.1.0">>} :
         /\ (conf # None => conf_type = NoneAtom)
         /\ cli = Flag("conf", conf # None, conf)
                  @@ Flag("conf_type", conf_type # NoneAtom, conf_type)
                  @@ Flag("mode", TRUE, mode)
                  @@ Flag("sub_help", sub_help, TRUE)
                  @@ Flag("app_name", app_name # None, app_name)
                  @@ Flag("chronon_jar", chronon_jar # None, chronon_jar)
                  @@ Flag("spark_version", spark_version # None, spark_version)
         /\ \E teams_exists \in BOOLEAN : fs = SampleFiles(teams_exists, conf)
    /\ shell_env \in {EmptyDict, "APP_NAME" :> <<"shell_name">>}
    /\ os_environ = shell_env
    /\ environment = EmptyEnvironment
    /\ parser = EmptyDict
    /\ args = EmptyDict
    /\ final_args = EmptyDict
    /\ jar = EmptyDict
    /\ runner = EmptyDict
    /\ running_apps = <<>>
    /\ launched = {}
    /\ submitted = 0
    /\ error = <<>>

\* lines 319-357: the parser is built and the command line pre-parsed
PreParse ==
    /\ pc = "pre_parse"
    /\ parser' = ParserDefaults(os_environ)
    /\ args' = ParseKnownArgs(parser', cli)
    /\ pc' = "set_runtime_env"
    /\ UNCHANGED <<caller, cli, fs, shell_env, os_environ, environment, final_args, jar,
                   runner, running_apps, launched, submitted, error>>

\* lines 360-367: the final parse, and the jar path when --chronon-jar gives it
FinalParse ==
    /\ pc = "final_parse"
    /\ LET a == ParseKnownArgs(parser, cli)
           jar_type == IF a.mode = "local-streaming" THEN "embedded" ELSE "uber"
           call == JarCall([version |-> a.version, jar_type |-> jar_type,
                            release_tag |-> a.release_tag,
                            spark_version |-> a.spark_version])
       IN /\ final_args' = a
          /\ IF Truthy(a.chronon_jar)
             THEN jar' = [call EXCEPT !.jar_path = a.chronon_jar] /\ pc' = "Runner.__init__"
             ELSE jar' = call /\ pc' = "download_jar"
    /\ UNCHANGED <<caller, cli, parser, args, fs, shell_env, os_environ, environment,
                   runner, running_apps, launched, submitted, error>>

\* Runner(args, jar_path)
ConstructRunner ==
    /\ pc = "Runner.__init__"
    /\ \E r \in {RunnerInit(final_args, jar.jar_path, w) :
                    w \in [online_jar_exists : BOOLEAN, fetch_ok : BOOLEAN]} :
         /\ launched' = launched \cup r.cmds
         /\ os_environ' = IF r.fetched
                          THEN ("CHRONON_ONLINE_JAR" :> r.online_jar) @@ os_environ
                          ELSE os_environ
         /\ runner' = r.runner
         /\ IF r.error = ""
            THEN pc' = "Runner.run" /\ error' = error
            ELSE pc' = "raised" /\ error' = <<r.error, "Runner.__init__">>
    /\ UNCHANGED <<caller, cli, parser, args, fs, shell_env, environment, final_args, jar,
                   running_apps, submitted>>

\* what the outside world answers during Runner.run: whether the list-apps
\* command succeeds, the lines it prints, whether the driver command succeeds
RunWorlds(mode) ==
    [list_ok : BOOLEAN, driver_ok : BOOLEAN,
     lines : IF InStreaming(mode) THEN Listings ELSE {<<>>}]

\* Runner(args, jar_path).run()
Run ==
    /\ pc = "Runner.run"
    /\ \E r \in {RunnerRun(runner, w) : w \in RunWorlds(runner.mode)} :
         /\ launched' = launched \cup r.cmds
         /\ submitted' = submitted + r.submitted
         /\ running_apps' = r.listed
         /\ error' = r.error
         /\ pc' = IF r.error = <<>> THEN "done" ELSE "raised"
    /\ UNCHANGED <<caller, cli, parser, args, fs, shell_env, os_environ, environment,
                   final_args, jar, runner>>

Next ==
    \/ PreParse
    \/ SetRuntimeEnv
    \/ FinalParse
    \/ DownloadJarAttempt
    \/ DownloadJarLastCall
    \/ ConstructRunner
    \/ Run

Spec == Init /\ [][Next]_vars

-----------------------------------------------------------------------------
(* Properties of set_runtime_env called directly, checked under SpecEnv *)

Returned == pc = "returned"

\* the layers of `environment` that give key k a value that is not None
Defines(layer, k) == k \in DOMAIN environment[layer] /\ environment[layer][k] # None

LayerKeys ==
    UNION {DOMAIN environment[l] :
             l \in {"conf_env", "team_env", "default_env", "common_env", "cli_args"}}

\* the keys the layers hold that the shell did not define
FreshKeys == LayerKeys \ DOMAIN shell_env

\* C1: every variable the process environment defines before set_runtime_env
\* has the same value after it, whatever the layers hold and however the call
\* ends: the call only adds variables.
C1_ExistingNeverOverwritten ==
    pc # "set_runtime_env" =>
        \A k \in DOMAIN shell_env :
            k \in DOMAIN os_environ /\ os_environ[k] = shell_env[k]

\* a call that returned, with X set by the shell and by a layer, and APP_NAME added
C1_Witness ==
    /\ Returned
    /\ "X" \in DOMAIN shell_env
    /\ Defines("conf_env", "X")
    /\ "APP_NAME" \notin DOMAIN shell_env
    /\ "APP_NAME" \in DOMAIN os_environ

\* the precedence list of claim C2, from lowest to highest
C2_LowestToHighest == <<"conf_env", "team_env", "default_env", "common_env", "cli_args">>

C2_Defining(k) == {i \in 1 .. 5 : Defines(C2_LowestToHighest[i], k)}

C2_Highest(k) == CHOOSE i \in C2_Defining(k) : \A j \in C2_Defining(k) : j <= i

\* C2 (as claimed): a variable the shell does not define and that two or more
\* layers define with non-null values ends with the value of the layer latest in
\* conf_env, team_env, default_env, common_env, cli_args.
C2_LatestLayerWins ==
    Returned =>
        \A k \in FreshKeys :
            Cardinality(C2_Defining(k)) >= 2 =>
                /\ k \in DOMAIN os_environ
                /\ os_environ[k] = environment[C2_LowestToHighest[C2_Highest(k)]][k]

\* the file layers among those of claim C2: conf_env, team_env, default_env,
\* common_env
C2_FileDefining(k) == C2_Defining(k) \ {5}

C2_FirstFile(k) == CHOOSE i \in C2_FileDefining(k) : \A j \in C2_FileDefining(k) : i <= j

\* C2 (amended): a variable the shell does not define and that two or more of
\* the file layers conf_env, team_env, default_env, common_env define with
\* non-null values ends with the value of the file layer of highest precedence
\* defining it, the precedence running from highest to lowest conf_env,
\* team_env, default_env, common_env: conf_env beats common_env.
C2_HighestFileLayerWins ==
    Returned =>
        \A k \in FreshKeys :
            Cardinality(C2_FileDefining(k)) >= 2 =>
                /\ k \in DOMAIN os_environ
                /\ os_environ[k] = environment[C2_LowestToHighest[C2_FirstFile(k)]][k]

\* X defined by conf_env and by common_env, absent from the shell's environment
C2_Witness ==
    /\ Returned
    /\ "X" \notin DOMAIN shell_env
    /\ Defines("conf_env", "X")
    /\ Defines("common_env", "X")
    /\ environment.conf_env["X"] # environment.common_env["X"]

\* the file layers of claim C3, from highest priority to lowest
C3_FileLayers == <<"conf_env", "team_env", "default_env", "common_env">>

\* C3: for a variable the shell does not define, the conf document's value
\* overrides the teams.json values: the variable ends with the value of the first
\* of conf_env, team_env, default_env, common_env that defines it (with a value
\* that is not null).
C3_ConfOverTeamOverDefaultOverCommon ==
    Returned =>
        \A k \in FreshKeys :
            \A i \in 1 .. 4 :
                (/\ Defines(C3_FileLayers[i], k)
                 /\ \A j \in 1 .. (i - 1) : ~Defines(C3_FileLayers[j], k))
                => /\ k \in DOMAIN os_environ
                   /\ os_environ[k] = environment[C3_FileLayers[i]][k]

\* X defined by conf_env, team_env and default_env, and resolved
C3_Witness ==
    /\ Returned
    /\ "X" \notin DOMAIN shell_env
    /\ Defines("conf_env", "X")
    /\ Defines("team_env", "X")
    /\ Defines("default_env", "X")
    /\ os_environ["X"] = <<"from_conf">>

\* C4 (as claimed): a call with a mode and a conf path of fewer than 4 segments
\* fails, whatever the repository root argument is.
C4_ShortConfPathFails ==
    (/\ pc # "set_runtime_env"
     /\ Truthy(args.conf)
     /\ TruthyAtom(args.mode)
     /\ Len(args.conf) < 4)
    => pc = "raised"

\* the teams.json path team/context/mode is absent at some level
C5_TeamPathMissing ==
    LET l4 == Last4(args.conf)
    IN \/ l4[3] \notin DOMAIN fs.teams_json
       \/ l4[1] \notin DOMAIN fs.teams_json[l4[3]]
       \/ args.mode \notin DOMAIN fs.teams_json[l4[3]][l4[1]]

\* the teams.json path default/context/mode is absent at some level
C5_DefaultPathMissing ==
    LET l4 == Last4(args.conf)
    IN \/ "default" \notin DOMAIN fs.teams_json
       \/ l4[1] \notin DOMAIN fs.teams_json["default"]
       \/ args.mode \notin DOMAIN fs.teams_json["default"][l4[1]]

\* a call that reaches the lookups in teams.json with a well-formed conf document
C5_Resolving ==
    /\ pc # "set_runtime_env"
    /\ Truthy(args.repo) /\ fs.teams_exists
    /\ Truthy(args.conf) /\ TruthyAtom(args.mode)
    /\ Len(args.conf) >= 4
    /\ fs.conf_exists
    /\ "metaData" \in DOMAIN fs.conf_json
    /\ "name" \in DOMAIN fs.conf_json["metaData"]

\* C5 (as claimed): a key missing at any level of teamsDoc[team][context][mode]
\* gives an empty team_env, one missing at any level of
\* teamsDoc.default[context][mode] an empty default_env, and the call does not fail.
C5_MissingKeysAreEmpty ==
    C5_Resolving =>
        /\ C5_TeamPathMissing => (Returned /\ environment.team_env = EmptyDict)
        /\ C5_DefaultPathMissing => (Returned /\ environment.default_env = EmptyDict)

\* C6 (as claimed): when the shell does not define APP_NAME, APP_NAME ends as the
\* explicit app name if one is given, else chronon_metadata_export in mode
\* metadata-export, else the name derived from the conf document when one was
\* loaded, whatever the file layers hold.
C6_AppName ==
    (Returned /\ "APP_NAME" \notin DOMAIN shell_env) =>
        IF Truthy(args.app_name)
        THEN "APP_NAME" \in DOMAIN os_environ /\ os_environ["APP_NAME"] = args.app_name
        ELSE IF args.mode = "metadata-export"
        THEN /\ "APP_NAME" \in DOMAIN os_environ
             /\ os_environ["APP_NAME"] = <<"chronon_metadata_export">>
        ELSE C5_Resolving =>
             /\ "APP_NAME" \in DOMAIN os_environ
             /\ os_environ["APP_NAME"] =
                    <<"chronon", Last4(args.conf)[2], args.mode, Last4(args.conf)[1]>>
                    \o fs.conf_json["metaData"]["name"]

-----------------------------------------------------------------------------
(* Properties of the launcher, checked under Spec *)

\* the run has a (confType, mode) pair: no conf path, or one of 4 segments or more
C7_HasPair == "conf" \notin DOMAIN cli \/ Len(cli["conf"]) >= 4

\* confType: the third segment from the end of the conf path, else --conf-type
C7_ConfType ==
    IF "conf" \in DOMAIN cli THEN cli["conf"][Len(cli["conf"]) - 2]
    ELSE Get(cli, "conf_type", "group_bys")

C7_InTable ==
    /\ C7_ConfType \in {"group_bys", "joins", "staging_queries"}
    /\ cli["mode"] \in DOMAIN ROUTES[C7_ConfType]

\* the driver commands among the commands run
DriverCommands ==
    {c \in launched : c[1] \in {"java", "spark_submit.sh", "spark_streaming.sh"}}

\* C7: a driver command is only ever issued for a (confType, mode) pair of the
\* route table, with the table's entry as its subcommand (joins/fetch gives
\* fetch, joins/backfill gives join); for a pair that is not in the table the
\* Runner's construction (conf path given) or its run (--conf-type given) fails,
\* the run never completes and no driver command is issued.
C7_RouteTableDecides ==
    /\ \A c \in DriverCommands :
          /\ C7_HasPair /\ C7_InTable
          /\ c[2] = ROUTES[C7_ConfType][cli["mode"]]
          /\ (C7_ConfType = "joins" /\ cli["mode"] = "fetch") => c[2] = "fetch"
          /\ (C7_ConfType = "joins" /\ cli["mode"] = "backfill") => c[2] = "join"
    /\ (C7_HasPair /\ ~C7_InTable) =>
          /\ pc # "done"
          /\ submitted = 0
          /\ "conf" \in DOMAIN cli => pc # "Runner.run"

\* a completed joins/backfill run whose driver command carries the subcommand join
C7_Witness ==
    /\ pc = "done"
    /\ "conf" \in DOMAIN cli
    /\ C7_ConfType = "joins"
    /\ cli["mode"] = "backfill"
    /\ <<"spark_submit.sh", "join", "final_args">> \in launched

\* the exceptions by which an unknown confType or an illegal mode ends the run
RoutingFailures ==
    {<<"KeyError", "Runner.__init__">>, <<"AssertionError", "Runner.__init__">>,
     <<"KeyError", "Runner.run">>}

\* C8 (as claimed): when a launcher run ends with the routing failure, no
\* external process was started before it: no download command, no online-jar
\* fetch, no list-apps command, no driver command.
C8_RoutingFailsBeforeAnyProcess ==
    (pc = "raised" /\ C7_HasPair /\ ~C7_InTable /\ error \in RoutingFailures)
    => launched = {}

\* a streaming run (not sub-help) whose Runner.run got the list of running apps
\* and has ended
C9_Ended ==
    /\ pc \in {"done", "raised"}
    /\ ListApps \in launched
    /\ error # <<"CalledProcessError", "check_output(list_apps)">>
    /\ runner.mode = "streaming"
    /\ ~runner.sub_help

\* the lines that are records whose app_name is the run's application name
C9_EqualMatches ==
    {i \in 1 .. Len(running_apps) :
        /\ running_apps[i].kind = "app"
        /\ running_apps[i].app_name = runner.app_name}

\* the lines that are records whose app_name, stripped of the whitespace around
\* it, is the run's application name
C9_StrippedMatches ==
    {i \in 1 .. Len(running_apps) :
        /\ running_apps[i].kind = "app"
        /\ Strip(running_apps[i].app_name) = runner.app_name}

\* no match: one driver job; one match: success without a job; more: failure
\* without a job
C9_Outcome(matches) ==
    /\ Cardinality(matches) = 0 => (submitted = 1 /\ DriverCommands # {})
    /\ Cardinality(matches) = 1 =>
          (pc = "done" /\ submitted = 0 /\ DriverCommands = {})
    /\ Cardinality(matches) >= 2 =>
          (/\ pc = "raised" /\ error = <<"AssertionError", "Runner.run">>
           /\ submitted = 0 /\ DriverCommands = {})

\* C9 (as claimed): the matches are the lines that parse as records whose
\* app_name equals the run's application name; lines that do not parse are
\* skipped.
C9_DedupByEqualName == C9_Ended => C9_Outcome(C9_EqualMatches)

\* C9 (amended): the matches are the lines that parse as records whose app_name,
\* with its leading and trailing whitespace stripped, equals the run's
\* application name.
C9_DedupByStrippedName == C9_Ended => C9_Outcome(C9_StrippedMatches)

\* a run that found one running app of its name beside a line that is not JSON
\* and ended without a new job
C9_Witness ==
    /\ C9_Ended
    /\ pc = "done"
    /\ Cardinality(C9_StrippedMatches) = 1
    /\ \E i \in 1 .. Len(running_apps) : running_apps[i].kind = "garbage"

-----------------------------------------------------------------------------
(* Properties of download_jar, checked under SpecJar *)

\* C10: for a spark_version outside 2.4.0, 3.1.1, 3.2.1 download_jar never
\* returns, never calls download_only_once and never runs a download command,
\* on any of its attempts; after its last call (the call after the Retries + 1
\* passes of the loop) it has raised the assertion's error.
C10_UnsupportedSparkRaises ==
    jar.call.spark_version \notin {<<"2.4.0">>, <<"3.1.1">>, <<"3.2.1">>} =>
        /\ pc \in {"download_jar", "raised"}
        /\ ~jar.downloaded
        /\ launched = {}
        /\ jar.jar_path = None
        /\ jar.calls <= Retries + 2
        /\ jar.calls = Retries + 2 =>
              (pc = "raised" /\ error = <<"AssertionError", "download_jar">>)
        /\ pc = "raised" => jar.calls = Retries + 2

\* download_jar('version', spark_version='2.1.0') has raised
C10_Witness ==
    /\ pc = "raised"
    /\ jar.call.spark_version = <<"2.1.0">>
    /\ jar.calls > 1

-----------------------------------------------------------------------------
(* Properties of the final parse, checked under Spec *)

\* set_runtime_env set the variable: the shell had not defined it, and it is
\* in os.environ when set_runtime_env has returned
C11_SetByRuntimeEnv(var) == var \notin DOMAIN shell_env /\ var \in DOMAIN os_environ

\* the arguments the claim names
C11_Arguments == {"app_name", "version", "online_jar", "online_class", "chronon_jar"}

\* C11 (as claimed): once the final parse is done, every argument whose
\* default is read from an environment variable, whose flag is not on the
\* command line and whose variable set_runtime_env set, equals the value of
\* that variable; and the app name a streaming Runner looks up in the list of
\* running apps is the APP_NAME of the environment.
C11_FinalParseSeesEnvironment ==
    /\ pc \in {"download_jar", "Runner.__init__"} =>
          \A a \in C11_Arguments :
             (a \notin DOMAIN cli /\ C11_SetByRuntimeEnv(EnvDefaults[a]))
                => final_args[a] = os_environ[EnvDefaults[a]]
    /\ (pc = "Runner.run" /\ runner.mode = "streaming"
          /\ "app_name" \notin DOMAIN cli /\ C11_SetByRuntimeEnv("APP_NAME"))
          => runner.app_name = os_environ["APP_NAME"]

-----------------------------------------------------------------------------
(* Properties of the retry wrapper, checked under SpecJar *)

\* every call of download_jar made so far has raised: the wrapper is still in
\* its loop, or its last call has raised
C12_EveryCallRaised == pc \in {"download_jar", "raised"}

\* the wait after the k-th failed call, before the k-th retry, is k * Backoff
C12_LinearBackoff == \A k \in DOMAIN jar.sleeps : jar.sleeps[k] = k * Backoff

\* C12 (as claimed): when download_jar raises on every call, the wrapper
\* calls it at most Retries + 1 times (one attempt and at most Retries
\* retries), waits k * Backoff before the k-th retry, and ends with the error
\* raised to the caller.
C12_AtMostRetriesPlusOneCalls ==
    /\ C12_EveryCallRaised => jar.calls <= Retries + 1
    /\ C12_LinearBackoff
    /\ pc = "raised" => error # <<>>

\* C12 (what the wrapper does): the loop makes Retries + 1 calls, each
\* followed by a wait, and the call after the loop is one more, so a function
\* that raises on every call is called Retries + 2 times, after Retries + 1
\* waits; the error of that last call is the one raised to the caller.
C12_RetriesPlusTwoCalls ==
    /\ jar.calls <= Retries + 2
    /\ Len(jar.sleeps) <= Retries + 1
    /\ C12_LinearBackoff
    /\ pc = "download_jar" => (jar.calls = jar.attempt /\ Len(jar.sleeps) = jar.attempt)
    /\ pc = "raised" =>
          /\ jar.calls = Retries + 2
          /\ Len(jar.sleeps) = Retries + 1
          /\ error # <<>>
          /\ error[2] = "download_jar"

\* C12 (termination, under SpecJarFair): the wrapper's call ends, by a
\* return or by the error
C12_Terminates == <>(pc # "download_jar")

=============================================================================
